---- MODULE Spec2Model ----
(***************************************************************************)
(* Model of the synchronisation core of libxayagame:                       *)
(*                                                                         *)
(*  - ExternGameLogic (xayagame/cmain.cpp), the adapter that implements    *)
(*    GameLogic by calling the extern "C" XayaGame* functions with         *)
(*    caller-sized buffers and a persistent, growing bufferSize;           *)
(*  - ZmqSubscriber, as it is driven and observed by                       *)
(*    xayagame/zmqsubscriber_tests.cpp.                                    *)
(*                                                                         *)
(* AdapterSpec is the state machine of one ExternGameLogic instance and    *)
(* its external callee; Spec is the state machine of one ZmqSubscriber,    *)
(* its caller thread, its worker thread and the publisher.                 *)
(***************************************************************************)
EXTENDS Integers, Sequences, FiniteSets, TLC

VARIABLES
  \* ---- ExternGameLogic ----
  bufferSize,   \* ExternGameLogic::bufferSize
  xcall,        \* the adapter call in progress or last returned: operation, arguments, position
  stateBuf,     \* the local game-state buffer of the running call (state / newState / oldState)
  undoBuf,      \* the undoData output argument of ProcessForward
  nameBufs,     \* vid, vname, vversion of GetNames
  callee,       \* what the external function wrote on its last successful (zero) return
  xret,         \* what the adapter returned to its caller
  lastForward,  \* the caller's record of the last completed ProcessForward
  xaborted,     \* the adapter's process died on a failed CHECK
  \* ---- ZmqSubscriber ----
  endpoint,     \* the ZMQ endpoint, "" while unset
  listeners,    \* the registered listeners: pairs <<gameId, listener>>
  noListeningForTesting,
  running,      \* IsRunning (): a worker thread exists
  shouldStop,   \* the stop signal, guarded by mut
  socket,       \* the SUB socket: whether it exists, and its subscriptions
  queued,       \* number of messages the socket holds for the worker
  lastSeq,      \* last sequence number stored per topic
  wpc,          \* the worker thread: "none", "recv", "dispatch", "exited"
  cur,          \* the message the worker dispatched last / is dispatching
  callerPc,     \* the caller thread: "idle", or "joining" inside Stop ()
  aborted,      \* <<>> or <<operation, message>> of the CHECK that terminated the process
  seen          \* history: last sequence number received per topic since Start ()

xvars == <<bufferSize, xcall, stateBuf, undoBuf, nameBufs, callee, xret,
           lastForward, xaborted>>

svars == <<endpoint, listeners, noListeningForTesting, running, shouldStop, socket,
           queued, lastSeq, wpc, cur, callerPc, aborted, seen>>

vars == <<bufferSize, xcall, stateBuf, undoBuf, nameBufs, callee, xret,
          lastForward, xaborted,
          endpoint, listeners, noListeningForTesting, running, shouldStop, socket,
          queued, lastSeq, wpc, cur, callerPc, aborted, seen>>

(***************************************************************************)
(* Bounds and input sets                                                   *)
(***************************************************************************)
\* longest game state / undo data the callee produces or the caller passes
MaxStateLen == 1
\* the retry loops are followed while doubling keeps bufferSize at or below this
MaxBufferSize == 8192

Byte == {0, 1}

Min(a, b) == IF a < b THEN a ELSE b
Max(a, b) == IF a > b THEN a ELSE b

BytesUpTo(n) == UNION {[1..k -> Byte] : k \in 0..n}

(***************************************************************************)
(* Byte vectors (std::string, std::vector<char>).  A vector of `size`      *)
(* bytes is kept as its size and its content without the trailing zero     *)
(* bytes, so that a 1024-byte buffer holding two bytes stays small; two    *)
(* vectors are byte-identical iff their records are equal.                 *)
(***************************************************************************)
RECURSIVE Trim(_)
Trim(d) == IF d = <<>> \/ d[Len(d)] # 0 THEN d ELSE Trim(SubSeq(d, 1, Len(d) - 1))

Vec(d) == [size |-> Len(d), data |-> Trim(d)]

EmptyVec == Vec(<<>>)

\* std::string::resize (n): truncates, or pads with zero bytes
Resize(v, n) == [size |-> n, data |-> Trim(SubSeq(v.data, 1, Min(n, Len(v.data))))]

\* the external function stores the bytes d at the start of the buffer v
WriteAt0(v, d) ==
  [size |-> v.size, data |-> Trim(d \o SubSeq(v.data, Len(d) + 1, Len(v.data)))]

\* std::string (const char*): the bytes before the first nul
RECURSIVE CStrBytes(_)
CStrBytes(d) == IF d = <<>> \/ d[1] = 0 THEN <<>> ELSE <<d[1]>> \o CStrBytes(Tail(d))

CStr(v) == Vec(CStrBytes(v.data))

States == {Vec(d) : d \in BytesUpTo(MaxStateLen)}

(***************************************************************************)
(* ExternGameLogic                                                         *)
(***************************************************************************)
InitialBufferSize == 1024

\* nonzero codes the external functions return ("the minimum required size");
\* a callee is free to return any int, so a negative code is among them
RetCodes == {-1, 1500, 3000, 3500}

\* what a callee may have stored in an output buffer before it gave up
Scribbles == {<<>>, <<1>>}

\* block data (Json::Value) handed to ProcessForward / ProcessBackwards
Blocks == {5, 42}

\* intHeight values the callee reports
Heights == {-1, 0, 7}

\* the names XayaGameGetNames produces
Names == {<<1>>, <<1, 1>>}

\* 64 hex digits, all the same digit c
HashOf(c) == [i \in 1..64 |-> c]

HashDigits == {1}

RECURSIVE Digits(_)
Digits(n) == IF n < 10 THEN <<n>> ELSE Digits(n \div 10) \o <<n % 10>>

\* Json::writeString (jsonWriterBuilder, blockData) for a numeric value:
\* the compact decimal text, as a C string
JsonWriteString(b) == Digits(b)

\* grows to the size asked for, without doubling
IncreaseBufferSizeToDesired(size, desiredSize) == Max(desiredSize, size)

\* doubles, whatever size was asked for
IncreaseBufferSizeDoubleOnly(size, desiredSize) == 2 * size

\* ExternGameLogic::IncreaseBufferSize
IncreaseBufferSize(size, desiredSize) == Max(desiredSize, 2 * size)

\* the largest value of int bufferSize
INT_MAX == 2147483647

\* 2 * bufferSize computed in int when the product exceeds INT_MAX: signed
\* overflow, undefined; the value wraps around, or the operation traps
WrappedDouble(size) == 2 * ((size - INT_MAX) - 1)

\* bufferSize after 19 failed calls answered with codes below twice the size
EdgeBufferSize == InitialBufferSize * 2^19

\* the sizes at which the retry loops are followed: from 1024 while doubling
\* stays at or below MaxBufferSize, and again from EdgeBufferSize up to INT_MAX
Followed(size) == size <= MaxBufferSize \div 2 \/ size >= EdgeBufferSize

\* the contract of the extern "C" functions, for a callee that needs `need`
\* bytes: zero if the buffer offered is large enough, else the size required
Truthful(need, size, res) == IF size >= need THEN res = 0 ELSE res = need

\* the block argument of a call is <<b>>, or <<>> for the operations that take none
NoBlock == <<>>
\* no operation yet.  Of an operation: its arguments, the number of external
\* calls made, the size offered and the code returned (res) at the last of them,
\* the size the callee asked for first (need, 0 if it never asked), whether all
\* its answers were those of a truthful callee with that need
NoCall == [op |-> "none", pc |-> "done", state |-> EmptyVec, block |-> NoBlock,
           blockStr |-> <<>>, undo |-> EmptyVec, calls |-> 0, offered |-> 0,
           res |-> 0, need |-> 0, truthful |-> TRUE]
NoCallee == [returned |-> FALSE, state |-> EmptyVec, undo |-> EmptyVec]
NoRet == [state |-> EmptyVec, undo |-> EmptyVec, height |-> 0, hash |-> EmptyVec,
          names |-> <<>>]
NoForward == [valid |-> FALSE, old |-> EmptyVec, block |-> NoBlock, new |-> EmptyVec,
              undo |-> EmptyVec]
NoNameBufs == <<EmptyVec, EmptyVec, EmptyVec>>

XInit ==
  /\ bufferSize = InitialBufferSize
  /\ xcall = NoCall
  /\ stateBuf = EmptyVec
  /\ undoBuf = EmptyVec
  /\ nameBufs = NoNameBufs
  /\ callee = NoCallee
  /\ xret = NoRet
  /\ lastForward = NoForward
  /\ xaborted = FALSE

XIdle == ~xaborted /\ xcall.pc = "done"
XInLoop(op) == ~xaborted /\ xcall.pc = "loop" /\ xcall.op = op

\* bufferSize as a local of the operation, starting at 1024 in every call
XEnterFreshBuffer(op, s, b, u) ==
  /\ xcall' = [op |-> op, pc |-> "loop", state |-> s, block |-> b,
               blockStr |-> IF b = NoBlock THEN <<>> ELSE JsonWriteString(b[1]),
               undo |-> u, calls |-> 0, offered |-> 0, res |-> 0, need |-> 0,
               truthful |-> TRUE]
  /\ stateBuf' = EmptyVec
  /\ undoBuf' = EmptyVec
  /\ nameBufs' = NoNameBufs
  /\ callee' = NoCallee
  /\ xret' = NoRet
  /\ bufferSize' = InitialBufferSize
  /\ UNCHANGED xaborted

\* the caller enters one of the four operations: the locals are constructed empty
XEnter(op, s, b, u) ==
  /\ xcall' = [op |-> op, pc |-> "loop", state |-> s, block |-> b,
               blockStr |-> IF b = NoBlock THEN <<>> ELSE JsonWriteString(b[1]),
               undo |-> u, calls |-> 0, offered |-> 0, res |-> 0, need |-> 0,
               truthful |-> TRUE]
  /\ stateBuf' = EmptyVec
  /\ undoBuf' = EmptyVec
  /\ nameBufs' = NoNameBufs
  /\ callee' = NoCallee
  /\ xret' = NoRet
  /\ UNCHANGED <<bufferSize, xaborted>>

\* resize (bufferSize) with a negative bufferSize: the size converts to a huge
\* size_t, resize throws std::length_error, and nothing catches it
XResizeFails ==
  /\ bufferSize < 0
  /\ xaborted' = TRUE
  /\ UNCHANGED <<bufferSize, xcall, stateBuf, undoBuf, nameBufs, callee, xret,
                 lastForward>>

\* the external function returned the nonzero code res: IncreaseBufferSize (res)
\* and the next iteration of the while (true) loop
XRetry(res) ==
  /\ Followed(bufferSize)
  /\ IF bufferSize <= INT_MAX \div 2
       THEN bufferSize' = IncreaseBufferSize(bufferSize, res) /\ UNCHANGED xaborted
       ELSE \/ bufferSize' = Max(res, WrappedDouble(bufferSize)) /\ UNCHANGED xaborted
            \/ xaborted' = TRUE /\ UNCHANGED bufferSize
  /\ LET need == IF xcall.need = 0 THEN res ELSE xcall.need
     IN xcall' = [xcall EXCEPT !.calls = @ + 1, !.offered = bufferSize, !.res = res,
                               !.need = need,
                               !.truthful = @ /\ Truthful(need, bufferSize, res)]
  /\ UNCHANGED <<callee, xret, lastForward>>

\* the external function returned zero: break
XLeave ==
  xcall' = [xcall EXCEPT !.pc = "done", !.calls = @ + 1, !.offered = bufferSize,
                         !.res = 0,
                         !.truthful = @ /\ Truthful(xcall.need, bufferSize, 0)]

(* GameStateData ProcessForward (oldState, blockData, undoData) *)
ProcessForwardBegin ==
  /\ UNCHANGED svars
  /\ XIdle
  /\ \E s \in States, b \in Blocks : XEnter("ProcessForward", s, <<b>>, EmptyVec)
  /\ lastForward' = NoForward

\* the value ProcessForward returns once XayaGameProcessForward returned zero
\* with n bytes of new state in buf
ProcessForwardResult(buf, n) == Resize(buf, n)

ProcessForwardCall ==
  /\ UNCHANGED svars
  /\ XInLoop("ProcessForward")
  /\ \/ XResizeFails
     \/ /\ bufferSize >= 0
        /\ LET nb == Resize(stateBuf, bufferSize)
               ub == Resize(undoBuf, bufferSize)
           IN \/ \E res \in RetCodes, g \in Scribbles :
                   /\ XRetry(res)
                   /\ stateBuf' = WriteAt0(nb, g)
                   /\ undoBuf' = WriteAt0(ub, g)
                   /\ UNCHANGED nameBufs
              \/ \E d \in BytesUpTo(MaxStateLen), u \in BytesUpTo(MaxStateLen) :
                   LET newState == ProcessForwardResult(WriteAt0(nb, d), Len(d))
                       undoData == Resize(WriteAt0(ub, u), Len(u))
                   IN /\ XLeave
                      /\ callee' = [returned |-> TRUE, state |-> Vec(d), undo |-> Vec(u)]
                      /\ xret' = [NoRet EXCEPT !.state = newState, !.undo = undoData]
                      /\ lastForward' = [valid |-> TRUE, old |-> xcall.state,
                                         block |-> xcall.block, new |-> newState,
                                         undo |-> undoData]
                      /\ stateBuf' = EmptyVec
                      /\ undoBuf' = EmptyVec
                      /\ UNCHANGED <<bufferSize, nameBufs, xaborted>>

(* GameStateData ProcessBackwards (newState, blockData, undoData): the caller *)
(* undoes the block it attached last, with the undo data of that attach       *)
ProcessBackwardsBegin ==
  /\ UNCHANGED svars
  /\ XIdle
  /\ lastForward.valid
  /\ XEnter("ProcessBackwards", lastForward.new, lastForward.block, lastForward.undo)
  /\ UNCHANGED lastForward

\* the value ProcessBackwards returns once XayaGameProcessBackwards returned
\* zero with n bytes of old state in buf: oldState is resized, newState returned
ProcessBackwardsResult(newState, buf, n) == newState

ProcessBackwardsCall ==
  /\ UNCHANGED svars
  /\ XInLoop("ProcessBackwards")
  /\ \/ XResizeFails
     \/ /\ bufferSize >= 0
        /\ LET ob == Resize(stateBuf, bufferSize)
           IN \/ \E res \in RetCodes, g \in Scribbles :
                   /\ XRetry(res)
                   /\ stateBuf' = WriteAt0(ob, g)
                   /\ UNCHANGED <<undoBuf, nameBufs>>
              \/ \E d \in BytesUpTo(MaxStateLen) :
                   /\ XLeave
                   /\ callee' = [returned |-> TRUE, state |-> Vec(d), undo |-> EmptyVec]
                   /\ xret' = [NoRet EXCEPT
                                 !.state = ProcessBackwardsResult(xcall.state,
                                                                  WriteAt0(ob, d), Len(d))]
                   /\ stateBuf' = EmptyVec
                   /\ UNCHANGED <<bufferSize, undoBuf, nameBufs, lastForward, xaborted>>

(* GameStateData GetInitialState (height, hashHex) *)
GetInitialStateBegin ==
  /\ UNCHANGED svars
  /\ XIdle
  /\ XEnter("GetInitialState", EmptyVec, NoBlock, EmptyVec)
  /\ lastForward' = NoForward

GetInitialStateCall ==
  /\ UNCHANGED svars
  /\ XInLoop("GetInitialState")
  /\ \/ XResizeFails
     \/ /\ bufferSize >= 0
        /\ LET sb == Resize(stateBuf, bufferSize)
           IN \/ \E res \in RetCodes, g \in Scribbles :
                   /\ XRetry(res)
                   /\ stateBuf' = WriteAt0(sb, g)
                   /\ UNCHANGED <<undoBuf, nameBufs>>
              \/ \E d \in BytesUpTo(MaxStateLen), h \in Heights, c \in HashDigits,
                    nul \in BOOLEAN :
                   LET hashBuf == WriteAt0(Resize(EmptyVec, 65),
                                           HashOf(c) \o (IF nul THEN <<0>> ELSE <<>>))
                   IN /\ XLeave
                      /\ callee' = [returned |-> TRUE, state |-> Vec(d), undo |-> EmptyVec]
                      /\ stateBuf' = EmptyVec
                      /\ IF h >= 0
                           THEN /\ xret' = [NoRet EXCEPT
                                              !.state = Resize(WriteAt0(sb, d), Len(d)),
                                              !.height = h,
                                              !.hash = Resize(hashBuf, 64)]
                                /\ UNCHANGED xaborted
                           ELSE /\ xaborted' = TRUE      \* CHECK (intHeight >= 0)
                                /\ UNCHANGED xret
                      /\ UNCHANGED <<bufferSize, undoBuf, nameBufs, lastForward>>

(* void GetNames (id, name, v) *)
GetNamesBegin ==
  /\ UNCHANGED svars
  /\ XIdle
  /\ XEnter("GetNames", EmptyVec, NoBlock, EmptyVec)
  /\ UNCHANGED lastForward

GetNamesCall ==
  /\ UNCHANGED svars
  /\ XInLoop("GetNames")
  /\ \/ XResizeFails
     \/ /\ bufferSize >= 0
        /\ LET bufs == [i \in 1..3 |-> Resize(nameBufs[i], bufferSize)]
           IN \/ \E res \in RetCodes, g \in Scribbles :
                   /\ XRetry(res)
                   /\ nameBufs' = [i \in 1..3 |-> WriteAt0(bufs[i], g)]
                   /\ UNCHANGED <<stateBuf, undoBuf>>
              \/ \E id \in Names, nm \in Names, v \in Names :
                   LET out == <<id, nm, v>>
                   IN /\ XLeave
                      /\ callee' = [returned |-> TRUE, state |-> EmptyVec, undo |-> EmptyVec]
                      /\ xret' = [NoRet EXCEPT
                                    !.names = [i \in 1..3 |->
                                                 CStr(WriteAt0(bufs[i], out[i] \o <<0>>))]]
                      /\ nameBufs' = NoNameBufs
                      /\ UNCHANGED <<bufferSize, stateBuf, undoBuf, lastForward, xaborted>>

XNext ==
  \/ ProcessForwardBegin
  \/ ProcessForwardCall
  \/ ProcessBackwardsBegin
  \/ ProcessBackwardsCall
  \/ GetInitialStateBegin
  \/ GetInitialStateCall
  \/ GetNamesBegin
  \/ GetNamesCall

(***************************************************************************)
(* ZmqSubscriber                                                           *)
(***************************************************************************)
\* messages the SUB socket holds at most before the publisher's next one is lost
MaxInbox == 1

IPC_ENDPOINT == "ipc:///tmp/xayagame_zmqsubscriber_tests"

\* game identifiers, as sequences of pieces of text, so that one can extend another
GAME_ID == <<"test-game">>
OTHER_GAME_ID == <<"other-game">>
LONGER_GAME_ID == <<"test-game", "2">>

PREFIX_ATTACH == "game-block-attach json "
PREFIX_DETACH == "game-block-detach json "

\* a topic is the text prefix \o game
Topic(prefix, game) == [prefix |-> prefix, game |-> game]

\* the AddListener calls the callers make
Registrations == {<<GAME_ID, "mockListener">>, <<GAME_ID, "gameListener">>,
                  <<OTHER_GAME_ID, "otherListener">>}

\* the topics a publisher sends on
PubTopics == {Topic(PREFIX_ATTACH, GAME_ID), Topic(PREFIX_DETACH, GAME_ID),
              Topic(PREFIX_ATTACH, OTHER_GAME_ID), Topic(PREFIX_ATTACH, LONGER_GAME_ID),
              Topic("other topic", <<>>)}

\* the topics a sequence number is stored for
SeqTopics == {Topic(p, g) : p \in {PREFIX_ATTACH, PREFIX_DETACH},
                            g \in {r[1] : r \in Registrations}}

SeqVals == {1, 2, 5, 6}
NoSeq == -1

PAYLOAD1 == [members |-> <<<<"test", 42>>>>]
PAYLOAD2 == [members |-> <<<<"test", 5>>>>]

\* JSON values of the notifications: objects with one integer member, or none
Payloads == {PAYLOAD1, PAYLOAD2}

\* operator<< (std::ostream&, Json::Value): the text of a value, token by token
JsonText(v) ==
  IF v.members = <<>> THEN <<"{", "}">>
  ELSE <<"{", v.members[1][1], ":", v.members[1][2], "}">>

\* Json::parseFromStream with the strict reader: the value of a text, or failure
JsonParse(text) ==
  IF text = <<"{", "}">> THEN [ok |-> TRUE, value |-> [members |-> <<>>]]
  ELSE IF Len(text) = 5 /\ text[1] = "{" /\ text[3] = ":" /\ text[5] = "}"
    THEN [ok |-> TRUE, value |-> [members |-> <<<<text[2], text[4]>>>>]]
    ELSE [ok |-> FALSE, value |-> [members |-> <<>>]]

JUNK_JSON == <<"{", "}", "//", "Junk">>

\* SendMessage: the four bytes of a uint32_t in memory (little endian)
SeqBytes(seq) ==
  <<seq % 256, (seq \div 256) % 256, (seq \div 65536) % 256, (seq \div 16777216) % 256>>

\* ReceiveMultiparts: the sequence number of the four bytes of the third part
DecodeSeq(b) == b[1] + 256 * b[2] + 65536 * b[3] + 16777216 * b[4]

NOT_FOUR_BYTES == <<1, 2, 3, 4, 5>>

\* SendAttach / SendDetach / SendMessage: the parts of a well-formed notification
Notification(topic, payload, seq) == <<topic, JsonText(payload), SeqBytes(seq)>>

WellFormed == {Notification(t, p, q) : t \in PubTopics, p \in Payloads, q \in SeqVals}

\* the multipart messages of the death tests
Malformed ==
  UNION {{ <<t, JsonText(PAYLOAD1), NOT_FOUR_BYTES>>,
           <<t, JsonText(PAYLOAD1)>>,
           <<t, JsonText(PAYLOAD1), SeqBytes(1), <<"foo">>>>,
           <<t, JUNK_JSON, SeqBytes(1)>> } : t \in PubTopics}

Messages == WellFormed \cup Malformed

IsPrefix(a, b) == Len(a) <= Len(b) /\ SubSeq(b, 1, Len(a)) = a

\* a socket that hands every message to the receiver
MatchesEverything(subs, topic) == TRUE

\* ZMQ_SUBSCRIBE filters by prefix of the first part
Matches(subs, topic) ==
  \E sub \in subs : sub.prefix = topic.prefix /\ IsPrefix(sub.game, topic.game)

\* Start (): both topics of every game that has a listener
SubscriptionsOf(ls) ==
  {Topic(p, r[1]) : p \in {PREFIX_ATTACH, PREFIX_DETACH}, r \in ls}

ListenersOf(ls, gameId) == {r[2] : r \in {x \in ls : x[1] = gameId}}

IsEndpointSet == endpoint # ""
IsRunning == running

NoSocket == [open |-> FALSE, subs |-> {}]
\* std::map from topic to sequence number: no entry, find, and assignment
NoneSeen == [t \in {} |-> NoSeq]
SeqOf(map, topic) == IF topic \in DOMAIN map THEN map[topic] ELSE NoSeq
WithSeq(map, topic, seq) ==
  [t \in DOMAIN map \cup {topic} |-> IF t = topic THEN seq ELSE map[t]]
\* the worker's record of a message: the parts it took from the socket (taken,
\* msg), whether the message got as far as the listeners (valid) and, if so,
\* what Listen computed for it, the listeners still to call and the calls made
NoCur == [taken |-> FALSE, msg |-> <<>>, valid |-> FALSE, topic |-> Topic("", <<>>),
          type |-> "UNKNOWN", gameId |-> <<>>, data |-> [members |-> <<>>],
          seq |-> NoSeq, prev |-> NoSeq, seqMismatch |-> FALSE, pending |-> {},
          calls |-> <<>>]

Taken(m) == [NoCur EXCEPT !.taken = TRUE, !.msg = m]

Alive == <<>>

SInit ==
  /\ endpoint = ""
  /\ listeners = {}
  /\ noListeningForTesting = FALSE
  /\ running = FALSE
  /\ shouldStop = FALSE
  /\ socket = NoSocket
  /\ queued = 0
  /\ lastSeq = NoneSeen
  /\ wpc = "none"
  /\ cur = NoCur
  /\ callerPc = "idle"
  /\ aborted = Alive
  /\ seen = NoneSeen

\* a failed CHECK: the process terminates with the message, nothing else changes
Die(op, msg) ==
  /\ aborted' = <<op, msg>>
  /\ UNCHANGED <<endpoint, listeners, noListeningForTesting, running, shouldStop,
                 socket, queued, lastSeq, wpc, cur, callerPc, seen>>

CallerReady == aborted = Alive /\ callerPc = "idle"

(* void SetEndpoint (const std::string& address) *)
SetEndpoint ==
  /\ UNCHANGED xvars
  /\ CallerReady
  /\ \E address \in {IPC_ENDPOINT} :
       IF IsRunning
         THEN Die("SetEndpoint", "Check failed: !IsRunning ()")
         ELSE /\ endpoint' = address
              /\ UNCHANGED <<listeners, noListeningForTesting, running, shouldStop,
                             socket, queued, lastSeq, wpc, cur, callerPc, aborted, seen>>

\* AddListener with a std::map: the listener of the game is replaced
AddedListenerReplacing(ls, gameId, listener) ==
  {x \in ls : x[1] # gameId} \cup {<<gameId, listener>>}

\* the registry after AddListener (gameId, listener) on a stopped subscriber
AddedListener(ls, gameId, listener) == ls \cup {<<gameId, listener>>}

(* void AddListener (const std::string& gameId, ZmqListener* listener) *)
AddListener ==
  /\ UNCHANGED xvars
  /\ CallerReady
  /\ \E r \in Registrations \ listeners :
       IF IsRunning
         THEN Die("AddListener", "Check failed: !IsRunning ()")
         ELSE /\ listeners' = AddedListener(listeners, r[1], r[2])
              /\ UNCHANGED <<endpoint, noListeningForTesting, running, shouldStop,
                             socket, queued, lastSeq, wpc, cur, callerPc, aborted, seen>>

(* BasicZmqSubscriberTests::DisableListening *)
DisableListening ==
  /\ UNCHANGED xvars
  /\ CallerReady
  /\ ~IsRunning
  /\ ~noListeningForTesting
  /\ noListeningForTesting' = TRUE
  /\ UNCHANGED <<endpoint, listeners, running, shouldStop, socket, queued, lastSeq,
                 wpc, cur, callerPc, aborted, seen>>

\* Start () without CHECK (!IsRunning ())
StartFailureNoRunningCheck(endpointSet, isRunning) ==
  IF ~endpointSet THEN "Check failed: IsEndpointSet ()" ELSE ""

\* the CHECK that Start () fails in the given state, "" if none
StartFailure(endpointSet, isRunning) ==
  IF ~endpointSet THEN "Check failed: IsEndpointSet ()"
  ELSE IF isRunning THEN "Check failed: !IsRunning ()"
  ELSE ""

\* the sequence numbers of the run before are kept
StartingSeqKept(stored) == stored

\* Start (): the sequence numbers a run starts with
StartingSeq(stored) == NoneSeen

(* void Start () *)
Start ==
  /\ UNCHANGED xvars
  /\ CallerReady
  /\ IF StartFailure(IsEndpointSet, IsRunning) # ""
       THEN Die("Start", StartFailure(IsEndpointSet, IsRunning))
       ELSE /\ socket' = [open |-> TRUE, subs |-> SubscriptionsOf(listeners)]
            /\ queued' = 0
            /\ lastSeq' = StartingSeq(lastSeq)
            /\ seen' = NoneSeen
            /\ cur' = NoCur
            /\ shouldStop' = FALSE
            /\ wpc' = "recv"
            /\ running' = TRUE
            /\ UNCHANGED <<endpoint, listeners, noListeningForTesting, callerPc, aborted>>

(* void Stop (): up to worker->join () *)
StopSignal ==
  /\ UNCHANGED xvars
  /\ CallerReady
  /\ IF ~IsRunning
       THEN Die("Stop", "Check failed: IsRunning ()")
       ELSE /\ shouldStop' = TRUE
            /\ callerPc' = "joining"
            /\ UNCHANGED <<endpoint, listeners, noListeningForTesting, running, socket,
                           queued, lastSeq, wpc, cur, aborted, seen>>

\* Stop () that does not wait for the worker
JoinedWithoutWaiting(w) == TRUE

\* Stop () that goes on while the worker still waits in its receive
JoinedWhileReceiving(w) == w \in {"recv", "exited"}

\* whether worker->join () returns for a worker at position w
Joined(w) == w = "exited"

(* void Stop (): worker->join () returned; the worker and the socket are reset *)
StopJoined ==
  /\ UNCHANGED xvars
  /\ aborted = Alive
  /\ callerPc = "joining"
  /\ Joined(wpc)
  /\ wpc' = "none"
  /\ socket' = NoSocket
  /\ queued' = 0
  /\ running' = FALSE
  /\ callerPc' = "idle"
  /\ UNCHANGED <<endpoint, listeners, noListeningForTesting, shouldStop, lastSeq, cur,
                 aborted, seen>>

(* the publisher's zmqSocket.send: the message reaches the SUB socket if its *)
(* topic is subscribed and the socket has room, and is dropped by the filter  *)
(* otherwise.  What the message holds is the publisher's choice and opaque to *)
(* the socket; it enters the model when the worker takes the message.         *)
Publish ==
  /\ UNCHANGED xvars
  /\ aborted = Alive
  /\ socket.open
  /\ queued < MaxInbox
  /\ \E delivered \in {Matches(socket.subs, t) : t \in PubTopics} :
       queued' = IF delivered THEN queued + 1 ELSE queued
  /\ UNCHANGED <<endpoint, listeners, noListeningForTesting, running, shouldStop,
                 socket, lastSeq, wpc, cur, callerPc, aborted, seen>>

\* ReceiveMultiparts without the CHECK of the size of the third part
ReceiveMultipartsAnySize(parts) ==
  IF Len(parts) # 3
    THEN [error |-> "Expected exactly three message parts"]
  ELSE [error |-> "", topic |-> parts[1], payload |-> parts[2],
        seq |-> DecodeSeq(parts[3])]

\* ReceiveMultiparts on the parts of one message: the CHECK that fails, or the
\* topic, payload and sequence number
ReceiveMultiparts(parts) ==
  IF Len(parts) >= 3 /\ Len(parts[3]) # 4
    THEN [error |-> "ZMQ sequence number should have size 4"]
  ELSE IF Len(parts) # 3
    THEN [error |-> "Expected exactly three message parts"]
  ELSE [error |-> "", topic |-> parts[1], payload |-> parts[2],
        seq |-> DecodeSeq(parts[3])]

\* Listen: attach or detach, from the prefix of the topic
TypeOf(topic) ==
  IF topic.prefix = PREFIX_ATTACH THEN "ATTACH"
  ELSE IF topic.prefix = PREFIX_DETACH THEN "DETACH"
  ELSE "UNKNOWN"

\* Listen: the game identifier is the topic after the prefix
GameIdOf(topic) == topic.game

\* only a gap counts, a repeated or lower number does not
SeqMismatchGapOnly(prev, seq) == IF prev = NoSeq THEN TRUE ELSE seq > prev + 1

\* no baseline, no mismatch
SeqMismatchFirstOk(prev, seq) == IF prev = NoSeq THEN FALSE ELSE seq # prev + 1

\* the increment forgotten
SeqMismatchNoIncrement(prev, seq) == IF prev = NoSeq THEN TRUE ELSE seq # prev

\* Listen: the flag passed to the listeners for sequence number seq on a topic
\* whose stored sequence number is prev
SeqMismatch(prev, seq) == IF prev = NoSeq THEN TRUE ELSE seq # prev + 1

\* Listen: the sequence number stored for the topic after a message with seq
StoredSeq(prev, seq) == seq

\* one sequence number per game, shared by its attach and detach topics
SeqKeyByGame(topic) == Topic("", topic.game)

\* Listen: the key under which the sequence number of a message is stored
SeqKey(topic) == topic

\* BlockAttach and BlockDetach swapped
ListenerCallSwapped(listener, c) ==
  [listener |-> listener,
   method |-> IF c.type = "ATTACH" THEN "BlockDetach" ELSE "BlockAttach",
   gameId |-> c.gameId, data |-> c.data, seqMismatch |-> c.seqMismatch]

\* Listen: one call of a listener for the message in c
ListenerCall(listener, c) ==
  [listener |-> listener,
   method |-> IF c.type = "ATTACH" THEN "BlockAttach" ELSE "BlockDetach",
   gameId |-> c.gameId, data |-> c.data, seqMismatch |-> c.seqMismatch]

\* the listeners of every game whose identifier starts the message's
NotifiedByPrefix(ls, gameId) == {r[2] : r \in {x \in ls : IsPrefix(x[1], gameId)}}

\* listeners.find: one listener of the game
NotifiedFirstOnly(ls, gameId) ==
  IF ListenersOf(ls, gameId) = {} THEN {}
  ELSE {CHOOSE l \in ListenersOf(ls, gameId) : TRUE}

\* Listen: the listeners called for a message of the game
Notified(ls, gameId) == ListenersOf(ls, gameId)

WorkerDies(m, msg) ==
  /\ aborted' = <<"Listen", msg>>
  /\ cur' = Taken(m)
  /\ UNCHANGED <<lastSeq, wpc>>

\* a worker that reads the next message while listeners are still to be called
ReadsAhead(w) == w \in {"recv", "dispatch"}

\* Listen: whether the worker at position w calls ReceiveMultiparts next: the
\* loop is back at its head, every listener of the last message has returned
AtReceive(w) == w = "recv"

(* Listen: ReceiveMultiparts returned true; the message is decoded and the *)
(* calls of the listeners are prepared                                      *)
WorkerReceive ==
  /\ UNCHANGED xvars
  /\ aborted = Alive
  /\ AtReceive(wpc)
  /\ ~shouldStop
  /\ queued > 0
  /\ queued' = queued - 1
  /\ UNCHANGED <<endpoint, listeners, noListeningForTesting, running, shouldStop,
                 socket, callerPc>>
  /\ \E m \in Messages :
       /\ Matches(socket.subs, m[1])
       /\ LET r == ReceiveMultiparts(m)
          IN IF r.error # ""
               THEN WorkerDies(m, r.error) /\ UNCHANGED seen
               ELSE
                 /\ seen' = IF r.topic \in SeqTopics
                              THEN WithSeq(seen, r.topic, r.seq) ELSE seen
                 /\ IF noListeningForTesting
                      THEN cur' = Taken(m) /\ UNCHANGED <<lastSeq, wpc, aborted>>
                    ELSE IF TypeOf(r.topic) = "UNKNOWN"
                      THEN WorkerDies(m, "Unexpected topic of ZMQ message")
                    ELSE IF Notified(listeners, GameIdOf(r.topic)) = {}
                      THEN cur' = Taken(m) /\ UNCHANGED <<lastSeq, wpc, aborted>>
                    ELSE
                      LET prev == SeqOf(lastSeq, SeqKey(r.topic))
                          json == JsonParse(r.payload)
                      IN IF ~json.ok
                           THEN WorkerDies(m, "Error parsing")
                           ELSE /\ lastSeq' = WithSeq(lastSeq, SeqKey(r.topic),
                                                    StoredSeq(prev, r.seq))
                                /\ cur' = [taken |-> TRUE, msg |-> m,
                                           valid |-> TRUE, topic |-> r.topic,
                                           type |-> TypeOf(r.topic),
                                           gameId |-> GameIdOf(r.topic),
                                           data |-> json.value, seq |-> r.seq,
                                           prev |-> SeqOf(seen, r.topic),
                                           seqMismatch |-> SeqMismatch(prev, r.seq),
                                           pending |->
                                             Notified(listeners, GameIdOf(r.topic)),
                                           calls |-> <<>>]
                                /\ wpc' = "dispatch"
                                /\ UNCHANGED aborted

(* Listen: the next listener of the game is called and returns *)
WorkerInvoke ==
  /\ UNCHANGED xvars
  /\ aborted = Alive
  /\ wpc = "dispatch"
  /\ \E l \in cur.pending :
       /\ cur' = [cur EXCEPT !.pending = @ \ {l},
                             !.calls = Append(@, ListenerCall(l, cur))]
       /\ wpc' = IF cur.pending = {l} THEN "recv" ELSE "dispatch"
  /\ UNCHANGED <<endpoint, listeners, noListeningForTesting, running, shouldStop,
                 socket, queued, lastSeq, callerPc, aborted, seen>>

\* a receive without timeout: the flag is looked at when a message wakes it
StopObservedOnWakeup(stop, n) == stop /\ n > 0

\* ReceiveMultiparts, waiting for a message with n messages in the socket: the
\* wait is bounded, and the flag is examined under mut before each wait
StopObserved(stop, n) == stop

(* ReceiveMultiparts returned false: shouldStop was set; Listen returns *)
WorkerExit ==
  /\ UNCHANGED xvars
  /\ aborted = Alive
  /\ wpc = "recv"
  /\ StopObserved(shouldStop, queued)
  /\ wpc' = "exited"
  /\ UNCHANGED <<endpoint, listeners, noListeningForTesting, running, shouldStop,
                 socket, queued, lastSeq, cur, callerPc, aborted, seen>>

SNext ==
  \/ SetEndpoint
  \/ AddListener
  \/ DisableListening
  \/ Start
  \/ StopSignal
  \/ StopJoined
  \/ Publish
  \/ WorkerReceive
  \/ WorkerInvoke
  \/ WorkerExit

Init == XInit /\ SInit

AdapterSpec == Init /\ [][XNext]_vars

\* the adapter inside GetNames, as main calls it, after 19 calls that a callee
\* answered with -1: the buffers were offered with half of EdgeBufferSize bytes
\* at the last of them, and bufferSize has grown to EdgeBufferSize
EdgeInit ==
  /\ bufferSize = EdgeBufferSize
  /\ xcall = [NoCall EXCEPT !.op = "GetNames", !.pc = "loop", !.calls = 19,
                            !.offered = EdgeBufferSize \div 2, !.res = -1,
                            !.need = -1, !.truthful = FALSE]
  /\ stateBuf = EmptyVec
  /\ undoBuf = EmptyVec
  /\ nameBufs = [i \in 1..3 |-> Resize(EmptyVec, EdgeBufferSize \div 2)]
  /\ callee = NoCallee
  /\ xret = NoRet
  /\ lastForward = NoForward
  /\ xaborted = FALSE
  /\ SInit

\* the adapter from there on, where doubling bufferSize leaves the range of int
EdgeSpec == EdgeInit /\ [][XNext]_vars

Spec == Init /\ [][SNext]_vars

\* the subscriber with a worker thread that keeps running, listeners that
\* return, and a join that returns once the worker has ended
LiveSpec ==
  /\ Init /\ [][SNext]_vars
  /\ WF_vars(WorkerInvoke)
  /\ WF_vars(WorkerExit)
  /\ WF_vars(StopJoined)

(***************************************************************************)
(* Claims                                                                  *)
(***************************************************************************)
CallsOf(c) == {c.calls[i] : i \in DOMAIN c.calls}

\* the worker is past the listeners of the message in cur
DispatchDone == wpc # "dispatch"

\* C1: ProcessBackwards on the outputs of a ProcessForward (s, b) returns s,
\* byte for byte, when XayaGameProcessBackwards stores s as the old state and
\* returns zero.
C1_BackwardsReturnsOldState ==
  ( /\ xcall.op = "ProcessBackwards" /\ xcall.pc = "done"
    /\ lastForward.valid
    /\ xcall.state = lastForward.new /\ xcall.block = lastForward.block
    /\ xcall.undo = lastForward.undo
    /\ callee.returned /\ callee.state = lastForward.old )
  => xret.state = lastForward.old

\* C2: a message that is not the first on its topic since Start () is passed
\* to the listeners with seqMismatch = FALSE iff its sequence number is the
\* one of the message received before it on that topic plus one, whatever
\* the flag of that earlier message was.
C2_MismatchIffNotSuccessor ==
  (cur.valid /\ cur.prev # NoSeq) =>
    /\ cur.seqMismatch = (cur.seq # cur.prev + 1)
    /\ \A call \in CallsOf(cur) : call.seqMismatch = (cur.seq # cur.prev + 1)

\* 6 follows 5, and 5 follows no 4: the message before was flagged
C2_Witness ==
  /\ cur.valid /\ cur.prev = 5 /\ cur.seq = 6
  /\ cur.calls # <<>> /\ ~cur.calls[1].seqMismatch

\* C3 as stated: the first message on a topic after Start () is passed to the
\* listeners with seqMismatch = FALSE.
C3_FirstMessageNoMismatch ==
  (cur.valid /\ cur.prev = NoSeq) =>
    /\ ~cur.seqMismatch
    /\ \A call \in CallsOf(cur) : ~call.seqMismatch

\* C3 amended: the first message on a topic after Start () is passed to the
\* listeners with seqMismatch = TRUE, whatever its sequence number is.
C3_FirstMessageMismatch ==
  (cur.valid /\ cur.prev = NoSeq) =>
    /\ cur.seqMismatch
    /\ \A call \in CallsOf(cur) : call.seqMismatch

C3_Witness ==
  /\ cur.valid /\ cur.prev = NoSeq /\ cur.seq = 5
  /\ cur.calls # <<>> /\ cur.calls[1].seqMismatch

\* C4: the first attach and the first detach message of a game, with sequence
\* number 1, reach the listener with seqMismatch = TRUE, and a message with
\* sequence number 2 that follows directly on the topic with FALSE.
C4_OneThenTwo ==
  cur.valid =>
    /\ (cur.prev = NoSeq /\ cur.seq = 1) =>
         \A call \in CallsOf(cur) :
           /\ call.seqMismatch
           /\ call.method = (IF cur.msg[1].prefix = PREFIX_ATTACH
                               THEN "BlockAttach" ELSE "BlockDetach")
    /\ (cur.prev = 1 /\ cur.seq = 2) =>
         \A call \in CallsOf(cur) : ~call.seqMismatch

C4_Witness ==
  /\ cur.valid /\ cur.prev = 1 /\ cur.seq = 2 /\ cur.type = "DETACH"
  /\ DispatchDone /\ cur.calls # <<>> /\ ~cur.calls[1].seqMismatch

\* C5: a well-formed message of a game with listeners, taken by the running
\* worker, makes one call per listener of the game: BlockAttach for an attach
\* topic and BlockDetach for a detach topic, with the game identifier of the
\* topic and the JSON value of the payload.
C5_OneMatchingCallPerListener ==
  ( /\ running /\ aborted = Alive /\ ~noListeningForTesting
    /\ cur.taken /\ cur.msg \in WellFormed
    /\ ListenersOf(listeners, cur.msg[1].game) # {} )
  =>
    /\ cur.valid
    /\ \A i \in DOMAIN cur.calls :
         /\ cur.calls[i].listener \in ListenersOf(listeners, cur.msg[1].game)
         /\ cur.calls[i].method = (IF cur.msg[1].prefix = PREFIX_ATTACH
                                     THEN "BlockAttach" ELSE "BlockDetach")
         /\ cur.calls[i].gameId = cur.msg[1].game
         /\ JsonText(cur.calls[i].data) = cur.msg[2]
         /\ \A j \in DOMAIN cur.calls :
              cur.calls[j].listener = cur.calls[i].listener => j = i
    /\ DispatchDone =>
         {call.listener : call \in CallsOf(cur)}
           = ListenersOf(listeners, cur.msg[1].game)

C5_Witness ==
  /\ running /\ cur.valid /\ DispatchDone
  /\ cur.msg = Notification(Topic(PREFIX_DETACH, GAME_ID), PAYLOAD2, 1)
  /\ Len(cur.calls) = 1
  /\ cur.calls[1] = [listener |-> "mockListener", method |-> "BlockDetach",
                     gameId |-> GAME_ID, data |-> PAYLOAD2, seqMismatch |-> TRUE]

\* C6: a message of a game without listener makes no call and is no error,
\* and the worker goes on receiving with the sequence numbers it had.
C6_UnregisteredGameIgnored ==
  [][ ( /\ cur' # cur /\ cur'.taken /\ cur'.msg \in WellFormed
        /\ ~noListeningForTesting
        /\ ListenersOf(listeners, cur'.msg[1].game) = {} )
      => /\ cur'.calls = <<>> /\ cur'.pending = {} /\ ~cur'.valid
         /\ aborted' = Alive
         /\ wpc' = "recv"
         /\ lastSeq' = lastSeq
         /\ listeners' = listeners /\ socket' = socket /\ running' = running ]_vars

C6_Witness ==
  /\ running /\ aborted = Alive /\ ~noListeningForTesting
  /\ cur.taken /\ cur.msg \in WellFormed /\ cur.msg[1].game = LONGER_GAME_ID
  /\ cur.calls = <<>>
  /\ DOMAIN lastSeq # {}

\* C7: SetEndpoint or AddListener while running, Start () without endpoint or
\* while running, and Stop () while not running terminate the process and
\* leave the subscriber as it was.
C7_MisuseTerminates ==
  [][ /\ (running /\ running') =>
           /\ endpoint' = endpoint /\ listeners' = listeners
           /\ socket' = socket
           /\ (cur.taken => cur'.taken)
      /\ (~running /\ running') => endpoint # ""
      /\ (callerPc' = "joining") => running
      /\ (aborted = Alive /\ aborted' # Alive /\ aborted'[1] # "Listen") =>
           /\ UNCHANGED <<endpoint, listeners, noListeningForTesting, running,
                          shouldStop, socket, queued, lastSeq, wpc, cur, callerPc>>
           /\ \/ aborted'[1] \in {"SetEndpoint", "AddListener"} /\ running
              \/ aborted'[1] = "Start" /\ (endpoint = "" \/ running)
              \/ aborted'[1] = "Stop" /\ ~running ]_vars

C7_Witness ==
  /\ aborted = <<"Start", "Check failed: !IsRunning ()">>
  /\ running /\ cur.valid /\ wpc = "dispatch"

\* C8 as stated: every game identifier has at most one listener.
C8_AtMostOneListenerPerGame ==
  \A r \in Registrations : Cardinality(ListenersOf(listeners, r[1])) <= 1

\* C8 amended: AddListener on a stopped subscriber adds the listener to those
\* of the game, also when the game has one already; the registry changes in no
\* other way and AddListener terminates the process only while running.
C8_AddListenerAdds ==
  [][ /\ listeners' # listeners =>
           /\ ~running /\ aborted' = Alive
           /\ \E r \in Registrations :
                /\ r \notin listeners
                /\ listeners' = listeners \cup {r}
      /\ (aborted = Alive /\ aborted' # Alive /\ aborted'[1] = "AddListener")
           => running ]_vars

C8_Witness ==
  /\ aborted = Alive
  /\ ListenersOf(listeners, GAME_ID) = {"mockListener", "gameListener"}

\* C9: with two listeners of one game, every message of the game makes one
\* call of each, with the same method, game, payload and flag, before the
\* worker takes the next message; a listener of another game is not called.
C9_BothListenersCalled ==
  (running /\ aborted = Alive /\ cur.valid) =>
    /\ \A c1 \in CallsOf(cur), c2 \in CallsOf(cur) :
         /\ c1.method = c2.method /\ c1.gameId = c2.gameId
         /\ c1.data = c2.data /\ c1.seqMismatch = c2.seqMismatch
    /\ \A call \in CallsOf(cur) : <<cur.gameId, call.listener>> \in listeners
    /\ Len(cur.calls) + Cardinality(cur.pending)
         = Cardinality(ListenersOf(listeners, cur.gameId))
    /\ \A l \in cur.pending : \A call \in CallsOf(cur) : call.listener # l
    /\ Cardinality(CallsOf(cur)) = Len(cur.calls)
    /\ DispatchDone => cur.pending = {}

C9_Witness ==
  /\ running /\ cur.valid /\ DispatchDone
  /\ listeners = Registrations
  /\ cur.gameId = GAME_ID
  /\ {call.listener : call \in CallsOf(cur)} = {"mockListener", "gameListener"}
  /\ Len(cur.calls) = 2

StartSucceeds == Start /\ running'
AddListenerSucceeds == AddListener /\ aborted' = Alive
SetEndpointSucceeds == SetEndpoint /\ aborted' = Alive

\* C10: running is set by a successful Start () and cleared by the return of
\* Stop (), which waits for the worker to end; a stopped subscriber takes
\* AddListener and SetEndpoint and can be started again.
C10_RunningFromStartToStop ==
  /\ [] /\ running <=> wpc # "none"
        /\ callerPc = "joining" => (running /\ shouldStop)
        /\ (~running /\ callerPc = "idle" /\ aborted = Alive) =>
             /\ ENABLED SetEndpointSucceeds
             /\ (Registrations \ listeners # {}) => ENABLED AddListenerSucceeds
             /\ (endpoint # "") => ENABLED StartSucceeds
  /\ [][ /\ (running /\ ~running') =>
              /\ callerPc = "joining" /\ callerPc' = "idle"
              /\ wpc = "exited"
         /\ (~running /\ running') =>
              /\ callerPc = "idle" /\ callerPc' = "idle"
              /\ wpc' = "recv" /\ ~shouldStop' ]_vars

\* a Stop () has returned (shouldStop is still set) and listeners were added
C10_Witness ==
  /\ ~running /\ shouldStop /\ callerPc = "idle" /\ aborted = Alive
  /\ wpc = "none" /\ ~socket.open
  /\ listeners = Registrations
  /\ ENABLED StartSucceeds

\* C11: a message taken from the socket with a third part that is not 4 bytes
\* long, or with a part count other than three, or (with the listeners on) a
\* payload that is not valid JSON on a topic the subscriber subscribed to,
\* terminates the process with the CHECK's message; no listener is called for
\* it, and nothing happens after the termination.
C11_MalformedFrameTerminates ==
  /\ [] /\ (cur.taken /\ Len(cur.msg) >= 3 /\ Len(cur.msg[3]) # 4) =>
             /\ aborted = <<"Listen", "ZMQ sequence number should have size 4">>
             /\ cur.calls = <<>> /\ cur.pending = {} /\ ~cur.valid
        /\ (cur.taken /\ Len(cur.msg) < 3) =>
             /\ aborted = <<"Listen", "Expected exactly three message parts">>
             /\ cur.calls = <<>> /\ cur.pending = {} /\ ~cur.valid
        /\ (cur.taken /\ Len(cur.msg) > 3 /\ Len(cur.msg[3]) = 4) =>
             /\ aborted = <<"Listen", "Expected exactly three message parts">>
             /\ cur.calls = <<>> /\ cur.pending = {} /\ ~cur.valid
        /\ ( /\ cur.taken /\ Len(cur.msg) = 3 /\ Len(cur.msg[3]) = 4
             /\ cur.msg[2] = JUNK_JSON
             /\ ~noListeningForTesting
             /\ cur.msg[1] \in SubscriptionsOf(listeners) ) =>
             /\ aborted = <<"Listen", "Error parsing">>
             /\ cur.calls = <<>> /\ cur.pending = {} /\ ~cur.valid
        /\ (aborted # Alive /\ aborted[1] = "Listen") =>
             /\ cur.taken /\ cur.calls = <<>> /\ wpc = "recv"
  /\ [][ aborted # Alive =>
           UNCHANGED <<endpoint, listeners, noListeningForTesting, running, shouldStop,
                       socket, queued, lastSeq, wpc, cur, callerPc, aborted, seen>> ]_vars

\* a message was dispatched, then one with five sequence bytes ended the process
C11_Witness ==
  /\ aborted = <<"Listen", "ZMQ sequence number should have size 4">>
  /\ running /\ ~noListeningForTesting
  /\ cur.taken /\ cur.msg[1] = Topic(PREFIX_ATTACH, GAME_ID)
  /\ cur.msg[3] = NOT_FOUR_BYTES /\ cur.calls = <<>>
  /\ DOMAIN lastSeq # {}

\* an external call returned in this step
XCalled == xcall.pc = "loop" /\ xcall'.calls = xcall.calls + 1

C14_TruthfulCalleeAtMostTwoCalls ==
  xcall.truthful =>
    /\ xcall.calls <= 2
    /\ (xcall.pc = "loop") => xcall.calls <= 1
    /\ (xcall.calls = 2) => (xcall.res = 0 /\ xcall.offered >= xcall.need)

C14_Witness ==
  /\ xcall.op = "ProcessBackwards" /\ xcall.pc = "done"
  /\ xcall.truthful /\ xcall.calls = 2 /\ xcall.need = 3000 /\ xcall.offered = 3000

\* C15: GetInitialState, ProcessForward and ProcessBackwards return only after
\* an external call returned zero, the retries get the arguments of the first
\* attempt, and the state (and undo data) returned are the bytes the callee
\* reported at that call, in size and content.
C15_OnlySuccessfulResultVisible ==
  /\ [] ( ( /\ xcall.op \in {"GetInitialState", "ProcessForward", "ProcessBackwards"}
            /\ xcall.pc = "done" /\ ~xaborted )
          => /\ xcall.res = 0 /\ callee.returned
             /\ xret.state = callee.state
             /\ xret.undo = callee.undo )
  /\ [][ XCalled =>
           /\ xcall'.state = xcall.state /\ xcall'.block = xcall.block
           /\ xcall'.blockStr = xcall.blockStr /\ xcall'.undo = xcall.undo ]_vars

\* C15 for GetInitialState and ProcessForward alone
C15_ForwardAndInitialOnly ==
  ( /\ xcall.op \in {"GetInitialState", "ProcessForward"}
    /\ xcall.pc = "done" /\ ~xaborted )
  => /\ xcall.res = 0 /\ callee.returned
     /\ xret.state = callee.state
     /\ xret.undo = callee.undo

\* the worker took a message in this step and passes it to the listeners
Dispatches == wpc = "recv" /\ wpc' = "dispatch"

\* C16: the flag of a message is computed from its sequence number and the last
\* sequence number received on the same topic, and a message changes the
\* sequence number of no other topic: neither of the other topic of its game
\* nor of a topic of another game.
C16_SequencePerTopic ==
  [][ Dispatches =>
        LET t == cur'.msg[1]
        IN /\ cur'.seqMismatch =
                (SeqOf(seen, t) = NoSeq \/ cur'.seq # SeqOf(seen, t) + 1)
           /\ SeqOf(lastSeq', t) = cur'.seq
           /\ \A u \in SeqTopics \ {t} :
                /\ SeqOf(seen', u) = SeqOf(seen, u)
                /\ SeqOf(lastSeq', u) = SeqOf(lastSeq, u) ]_vars

\* attach 1 was received, detach 1 is the message received last, and the worker
\* can take attach 2 next and pass it on with seqMismatch = FALSE
C16_Witness ==
  /\ running /\ aborted = Alive /\ wpc = "recv" /\ ~shouldStop /\ queued > 0
  /\ cur.valid /\ cur.topic = Topic(PREFIX_DETACH, GAME_ID) /\ cur.seq = 1
  /\ cur.seqMismatch
  /\ SeqOf(lastSeq, Topic(PREFIX_ATTACH, GAME_ID)) = 1
  /\ SeqOf(lastSeq, Topic(PREFIX_ATTACH, OTHER_GAME_ID)) = 5
  /\ ENABLED ( /\ WorkerReceive
               /\ cur'.valid /\ cur'.topic = Topic(PREFIX_ATTACH, GAME_ID)
               /\ cur'.seq = 2 /\ ~cur'.seqMismatch )

\* C17: Start () leaves no sequence number stored, whatever the run before
\* stored, and the numbers stored in a run are those received in that run: the
\* first message on a topic after a restart finds no number, like the first
\* message after the first Start ().
C17_SequenceStateResetByStart ==
  /\ [] /\ (running /\ cur = NoCur) => lastSeq = NoneSeen
        /\ (running /\ aborted = Alive /\ ~noListeningForTesting) => lastSeq = seen
  /\ [][ /\ (~running /\ running') => (lastSeq' = NoneSeen /\ cur' = NoCur)
         /\ (Dispatches /\ SeqOf(seen, cur'.msg[1]) = NoSeq) =>
              /\ SeqOf(lastSeq, cur'.msg[1]) = NoSeq
              /\ cur'.seqMismatch ]_vars

\* Stop () has returned, attach 1 was the last attach message of the run, and
\* the subscriber can be started again, which clears the number
C17_Witness ==
  /\ ~running /\ shouldStop /\ callerPc = "idle" /\ aborted = Alive
  /\ cur.valid /\ cur.topic = Topic(PREFIX_ATTACH, GAME_ID) /\ cur.seq = 1
  /\ SeqOf(lastSeq, Topic(PREFIX_ATTACH, GAME_ID)) = 1
  /\ ENABLED (Start /\ running' /\ lastSeq' = NoneSeen)

\* C18: the worker takes only messages whose topic starts with a topic the
\* socket subscribed to; a message on another topic, whatever its parts are,
\* is never decoded and ends the process with none of the CHECKs, and the
\* message taken next is on a subscribed topic and is returned with the topic
\* and payload it was sent with.
C18_UnsubscribedTopicNeverDecoded ==
  /\ cur.taken =>
       /\ cur.msg[1].prefix \in {PREFIX_ATTACH, PREFIX_DETACH}
       /\ \E r \in listeners : IsPrefix(r[1], cur.msg[1].game)
       /\ cur.msg[1] # Topic("other topic", <<>>)
  /\ (aborted # Alive /\ aborted[1] = "Listen") =>
       /\ cur.taken
       /\ aborted[2] # "Unexpected topic of ZMQ message"
  /\ (cur.taken /\ aborted = Alive) =>
       /\ Len(cur.msg) = 3 /\ Len(cur.msg[3]) = 4
       /\ cur.valid => (cur.topic = cur.msg[1] /\ JsonText(cur.data) = cur.msg[2])

\* ReceiveMultipartsTest: with the listeners off, a message on the subscribed
\* attach topic is taken, with a payload that is no JSON
C18_Witness ==
  /\ running /\ aborted = Alive /\ noListeningForTesting
  /\ listeners = {<<GAME_ID, "mockListener">>}
  /\ socket.subs = {Topic(PREFIX_ATTACH, GAME_ID), Topic(PREFIX_DETACH, GAME_ID)}
  /\ cur.taken /\ cur.msg = <<Topic(PREFIX_ATTACH, GAME_ID), JUNK_JSON, SeqBytes(1)>>

\* C19: once Stop () has set the stop signal, a worker waiting in the receive
\* takes no further message and calls no listener: its next step is the return
\* of false and the end of the loop; and Stop () returns with running = FALSE,
\* also when the socket stays empty, given that the listeners being called
\* return.
C19_StopEventuallyReturns ==
  /\ (callerPc = "joining") ~> (callerPc = "idle" /\ ~running /\ wpc = "none")
  /\ [][ (wpc = "recv" /\ shouldStop /\ wpc' # wpc) =>
           (wpc' = "exited" /\ cur' = cur /\ queued' = queued) ]_vars

\* Stop () has returned for a run in which no message was taken
C19_Witness ==
  /\ ~running /\ shouldStop /\ callerPc = "idle" /\ aborted = Alive
  /\ wpc = "none" /\ cur = NoCur /\ listeners # {}

\* C20: the socket exists whenever the worker thread exists: it is created in
\* the step that starts the worker, every receive of the worker is on the
\* open socket, and the socket is reset only by Stop (), after the worker has
\* ended and has been joined.
C20_SocketOutlivesWorker ==
  /\ [] /\ (wpc # "none") => socket.open
        /\ socket.open => (running /\ wpc # "none")
  /\ [][ /\ (socket.open /\ ~socket'.open) =>
              /\ wpc = "exited" /\ wpc' = "none"
              /\ callerPc = "joining" /\ callerPc' = "idle"
         /\ (~socket.open /\ socket'.open) =>
              (wpc = "none" /\ wpc' = "recv" /\ callerPc = "idle")
         /\ (wpc = "recv" /\ cur' # cur) => (socket.open /\ socket' = socket) ]_vars

\* the worker has ended with a message left in the socket; Stop () has not yet
\* joined it, and the socket still exists
C20_Witness ==
  /\ wpc = "exited" /\ callerPc = "joining" /\ running /\ shouldStop
  /\ socket.open /\ queued > 0 /\ cur.valid

RECURSIVE DoubledTimes(_, _)
DoubledTimes(n, k) == IF k = 0 THEN n >= InitialBufferSize ELSE DoubledTimes(n \div 2, k - 1)

\* C22 (as stated): every external call that returns a nonzero code, whatever
\* the code, leaves the operation in its loop with bufferSize at least doubled,
\* so that the k-th call of an operation offers at least 1024 * 2^(k-1) bytes
\* and a callee that accepts every size from some R on is called finitely
\* often; and an operation leaves its loop only by a call that returned zero.
C22_EveryFailureDoublesUntilZero ==
  /\ [] /\ (xcall.calls >= 1) => DoubledTimes(xcall.offered, xcall.calls - 1)
        /\ (xcall.pc = "loop" /\ xcall.calls >= 1) => bufferSize \div 2 >= xcall.offered
        /\ (xcall.pc = "loop") => ~xaborted
  /\ [][ /\ (XCalled /\ xcall'.res # 0) =>
             /\ xcall'.pc = "loop"
             /\ bufferSize' \div 2 >= bufferSize
        /\ (xcall.pc = "loop" /\ xcall'.pc = "done") =>
             /\ XCalled
             /\ xcall'.res = 0
             /\ bufferSize' = bufferSize ]_vars

\* C22: an operation whose callee answered -1 to every size up to 2^30 is
\* not in its loop with a doubled buffer afterwards: the process has stopped,
\* or bufferSize is the code the callee returned
C22_Overflowed ==
  /\ xcall.op = "GetNames"
  /\ xcall.pc = "loop"
  /\ xcall.calls = 21
  /\ xcall.offered = 2 * EdgeBufferSize
  /\ xcall.res = -1
  /\ xaborted \/ bufferSize = -1
====
